---- MODULE Spec2Model ----
(***************************************************************************)
(* Model of src/tailor.py: the batch loop (process_batch_jobs), the        *)
(* per-job driver (tailor_resume) and the build pipeline (compile_pdf,     *)
(* remove_fontawesome, write_file, load_template).                         *)
(*                                                                         *)
(* The program is single threaded: pc is the position of its one thread.   *)
(* External collaborators (the content provider, pdflatex, tlmgr, the      *)
(* user at the prompt, the file system) answer nondeterministically.       *)
(* sys.exit raises SystemExit, which no "except Exception" handler of the   *)
(* program catches: it ends the process with the given status.             *)
(***************************************************************************)
EXTENDS Integers, Sequences, FiniteSets, TLC

\* ------------------------------------------------------------------ bounds

MaxJobs == 3      \* rows of the batch file
MaxDefects == 1   \* rows of one batch that carry a defect (bad field or file)
MaxDepth == 2     \* nested compile_pdf calls on a _nofa copy
MaxOver == 1      \* characters by which a tool output may exceed DiagLimit
MaxTokens == 2    \* tokens of a tool output handed to the detection on its own

\* ------------------------------------------------------- program constants

DiagLimit == 500  \* error_log[-500:]

\* a third pass
NumPassesThree == 2 + 1

NumPasses == 2    \* for i in range(2)

None == "<None>"

required_fields == <<"company", "role", "template", "job_description_file">>

RequiredSet == {required_fields[k] : k \in 1..Len(required_fields)}

\* package_patterns, in the order the dict is iterated
PackageOrder == <<"fontawesome", "xcolor", "hyperref", "geometry", "titlesec">>

package_patterns ==
  [p \in {PackageOrder[k] : k \in 1..Len(PackageOrder)} |->
     CASE p = "fontawesome" -> "File `fontawesome.sty' not found"
       [] p = "xcolor" -> "File `xcolor.sty' not found"
       [] p = "hyperref" -> "File `hyperref.sty' not found"
       [] p = "geometry" -> "File `geometry.sty' not found"
       [] OTHER -> "File `titlesec.sty' not found"]

\* ------------------------------------------------------------------- text

\* A text is a sequence of tokens: single characters, or one whole
\* diagnostic of the tool.  OutChar/ErrChar give position-dependent filler.
OutChar(k) == <<"a", "b", "c">>[(k % 3) + 1]
ErrChar(k) == <<"x", "y", "z">>[(k % 3) + 1]

OutText(n) == [k \in 1..n |-> OutChar(k)]
ErrText(n) == [k \in 1..n |-> ErrChar(k)]

\* In the patterns "." is not escaped: it stands for any character.  Texts
\* other than the pattern's own text that the pattern matches (one sample
\* each, "_" in the place of the "."):
dot_matches(pattern) ==
  CASE pattern = "File `fontawesome.sty' not found" -> {"File `fontawesome_sty' not found"}
    [] pattern = "File `xcolor.sty' not found" -> {"File `xcolor_sty' not found"}
    [] pattern = "File `hyperref.sty' not found" -> {"File `hyperref_sty' not found"}
    [] pattern = "File `geometry.sty' not found" -> {"File `geometry_sty' not found"}
    [] pattern = "File `titlesec.sty' not found" -> {"File `titlesec_sty' not found"}
    [] OTHER -> {}

\* re.search(pattern, output)
re_search(pattern, output) ==
  \E k \in 1..Len(output) : output[k] = pattern \/ output[k] \in dot_matches(pattern)

\* s[-n:]
Last(s, n) == IF Len(s) <= n THEN s ELSE SubSeq(s, Len(s) - n + 1, Len(s))

\* ------------------------------------------------------------- documents

\* A LaTeX document is a sequence of tokens: a command with its arguments, or
\* a stretch of other text.  The two documents the content provider returns:
\* one that pdflatex turns into a .pdf, one that it turns into a .dvi.
tailored_latex(pdf) ==
  IF pdf
    THEN <<"\\documentclass{article}", "\\usepackage[fixed]{fontawesome}",
           "\\begin{document}", "\\faPhone", " 555 0100 ", "\\faEnvelopeO",
           " a@b.c ", "\\faGithub", "\\end{document}">>
    ELSE <<"\\pdfoutput=0", "\\documentclass{article}",
           "\\usepackage{xcolor,fontawesome}", "\\usepackage{fontawesome}",
           "\\begin{document}", "\\faLinkedinSquare", "\\faFileTextO",
           "\\end{document}">>

\* replacements of remove_fontawesome: the icon commands and their texts
replacements ==
  << <<"\\faPhone", "Phone:">>, <<"\\faEnvelope", "Email:">>,
     <<"\\faGlobe", "Website:">>, <<"\\faLinkedinSquare", "LinkedIn:">>,
     <<"\\faGithub", "GitHub:">>, <<"\\faTwitter", "Twitter:">>,
     <<"\\faMobile", "Mobile:">>, <<"\\faHome", "Address:">>,
     <<"\\faMapMarker", "Location:">>, <<"\\faCalendar", "Date:">>,
     <<"\\faUser", "User:">>, <<"\\faFile", "File:">>,
     <<"\\faBook", "Education:">> >>

\* what the two re.sub steps make of one token.  The first pattern,
\* \\usepackage(\[\w+\])?\{fontawesome\}, matches the package loaded alone,
\* with no option or one word of options; the icon patterns are not anchored,
\* so \faEnvelope also matches the head of \faEnvelopeO and leaves its tail.
re_sub(token) ==
  CASE token \in {"\\usepackage{fontawesome}", "\\usepackage[fixed]{fontawesome}"} -> <<>>
    [] token = "\\faEnvelopeO" -> <<"Email:", "O">>
    [] token = "\\faFileTextO" -> <<"File:", "TextO">>
    [] \E k \in 1..Len(replacements) : replacements[k][1] = token ->
         <<replacements[CHOOSE k \in 1..Len(replacements) : replacements[k][1] = token][2]>>
    [] OTHER -> <<token>>

\* the content remove_fontawesome returns for a file holding content
RECURSIVE modified_tex(_)
modified_tex(content) ==
  IF content = <<>> THEN <<>>
  ELSE re_sub(Head(content)) \o modified_tex(Tail(content))

\* write_file(modified_tex, tex_path): the copy is written over the document
\* it was made from
non_fa_in_place(contents, d, modified) ==
  [k \in 1..(d + 2) |-> IF k <= d THEN contents[k] ELSE modified]

\* write_file(modified_tex, non_fa_path), non_fa_path = base_name + "_nofa.tex":
\* the contents of the .tex files once the copy of the document of nesting d
\* is written
non_fa_written(contents, d, modified) ==
  [k \in 1..(d + 2) |-> IF k <= d + 1 THEN contents[k] ELSE modified]

\* ------------------------------------------------------------------ state

VARIABLES
  batch_readable,   \* open(batch_file) succeeds
  api_key,          \* os.getenv("OPENAI_API_KEY") is set (fixed for the process)
  jobs,             \* list(csv.DictReader(f)) with the state of the files a row names
  i,                \* enumerate(jobs, 1): the row being processed
  report,           \* what the program has printed about each job, in order
  exit_status,      \* -1 while the process runs, else the status it ended with
  pc,               \* position of the program
  depth,            \* number of enclosing compile_pdf calls (tex_path ends in depth "_nofa")
  missing_packages, \* compile_pdf: missing_packages of each active call, outermost first
  pkg,              \* compile_pdf: index of the package being installed
  pass_i,           \* compile_pdf: i of "for i in range(2)"
  process,          \* compile_pdf: result of the last subprocess.run of pdflatex
  exc,              \* the exception raised and not yet handled or just printed
  writes_pdf,       \* the job's document makes pdflatex write a .pdf (not a .dvi)
  tex,              \* content of the job's .tex files: tex[d + 1] is that of File(d, ".tex")
  compiled,         \* tailor_resume: compiled
  calls,            \* external invocations made for the current job, in order
  files             \* files named after the current job's base name that exist

vars == <<batch_readable, api_key, jobs, i, report, exit_status, pc, depth,
          missing_packages, pkg, pass_i, process, exc, writes_pdf, tex, compiled, calls,
          files>>

\* ------------------------------------------------------------ batch input

\* A row maps the columns of the header to "" , None (a short row lacks its
\* last columns) or a value; template and jd give the state of the files the
\* row names.  No row gives a value in an optional column (pain points,
\* keywords, recruiter), so no email is generated; the batch files of Init
\* have no optional column at all, those of OptionalInit have some.
FileStates == {"ok", "missing", "unreadable"}

GoodValue(f) == CASE f = "company" -> "Acme"
                  [] f = "role" -> "Engineer"
                  [] f = "template" -> "resume.tex"
                  [] OTHER -> "jd.txt"

GoodCols(header) == [f \in header |-> GoodValue(f)]

Headers == {RequiredSet} \cup {RequiredSet \ {f} : f \in RequiredSet}

RowsOf(header) ==
  LET good == [cols |-> GoodCols(header), template |-> "ok", jd |-> "ok"]
  IN  {good}
      \cup {[good EXCEPT !.cols[f] = ""] : f \in header}
      \cup {[good EXCEPT !.cols = [f \in header |->
                                    IF f \in short THEN None ELSE GoodValue(f)]] :
             short \in {{"job_description_file"}, {"template", "job_description_file"}}}
      \cup {[good EXCEPT !.template = s] : s \in FileStates \ {"ok"}}
      \cup {[good EXCEPT !.jd = s] : s \in FileStates \ {"ok"}}

\* MissingFields without "or not job[field]": an empty or None value passes
MissingFieldsAbsentOnly(job) ==
  SelectSeq(required_fields, LAMBDA f : f \notin DOMAIN job.cols)

\* missing = [field for field in required_fields if field not in job or not job[field]]
MissingFields(job) ==
  SelectSeq(required_fields,
            LAMBDA f : f \notin DOMAIN job.cols \/ job.cols[f] \in {"", None})

\* the optional columns, in the order the loop body reads them
optional_fields ==
  <<"pain_points", "recruiter_name", "recruiter_position", "recruiter_email",
    "keywords", "keywords_file">>

OptionalSet == {optional_fields[k] : k \in 1..Len(optional_fields)}

\* job[f].strip() on the optional columns: csv.DictReader gives None for the
\* columns a short row does not reach, and None has no strip
OptionalNone(job) ==
  \E f \in OptionalSet \cap DOMAIN job.cols : job.cols[f] = None

AttributeError ==
  [type |-> "AttributeError", prefix |-> <<"'NoneType' object has no attribute 'strip'">>,
   sample |-> <<>>]

NoException == [type |-> "none", prefix |-> <<>>, sample |-> <<>>]
NoProcess == [returncode |-> 0, stdout |-> <<>>, stderr |-> <<>>]

Init ==
  /\ batch_readable \in BOOLEAN
  /\ api_key \in BOOLEAN
  /\ \E header \in Headers : \E n \in 0..MaxJobs :
       /\ jobs \in [1..n -> RowsOf(header)]
       /\ header # RequiredSet => \A k \in 1..n : jobs[k].cols = GoodCols(header)
       /\ Cardinality({k \in 1..n : jobs[k].cols # GoodCols(header)
                                      \/ jobs[k].template # "ok"
                                      \/ jobs[k].jd # "ok"}) <= MaxDefects
  /\ ~batch_readable => jobs = <<>>
  /\ i = 0
  /\ report = <<>>
  /\ exit_status = -1
  /\ pc = "process_batch_jobs"
  /\ depth = 0
  /\ missing_packages = << <<>> >>
  /\ pkg = 0
  /\ pass_i = 0
  /\ process = NoProcess
  /\ exc = NoException
  /\ writes_pdf = TRUE
  /\ tex = <<>>
  /\ compiled = FALSE
  /\ calls = <<>>
  /\ files = {}

\* ---------------------------------------------------------------- helpers

BatchVars == <<batch_readable, api_key, jobs, i>>

\* locals of tailor_resume and compile_pdf
JobVars == <<depth, missing_packages, pkg, pass_i, process, exc, writes_pdf, tex, compiled,
             calls, files>>

\* one external invocation, made while compiling the document of nesting depth
Call(tool, kind, arg) == [tool |-> tool, kind |-> kind, doc |-> depth, arg |-> arg]

Line(kind, reason) == [job |-> i, kind |-> kind, reason |-> reason]

RuntimeError(prefix, sample) == [type |-> "RuntimeError", prefix |-> prefix, sample |-> sample]

EOFError == [type |-> "EOFError", prefix |-> <<"EOF when reading a line">>, sample |-> <<>>]

IOError == [type |-> "OSError", prefix |-> <<"cannot read file">>, sample |-> <<>>]

\* the file of the document compiled at nesting d, with extension ext:
\* base_name + d * "_nofa" + ext in the output directory
File(d, ext) == <<d, ext>>

\* output_pdf: in batch mode output_tex and output_pdf share directory and base name
output_pdf == File(0, ".pdf")

\* sys.exit(status) after printing line: SystemExit is not an Exception, so it
\* passes every "except Exception" handler and ends the process
sys_exit(status, line) ==
  /\ pc' = "exited"
  /\ exit_status' = status
  /\ report' = Append(report, line)

\* NextJob with "break" in place of "continue": the loop ends after this row
NextJobBreak(printed) ==
  /\ report' = report \o printed
  /\ depth' = 0
  /\ missing_packages' = << <<>> >>
  /\ pkg' = 0
  /\ pass_i' = 0
  /\ process' = NoProcess
  /\ exc' = NoException
  /\ writes_pdf' = TRUE
  /\ tex' = <<>>
  /\ compiled' = FALSE
  /\ calls' = <<>>
  /\ files' = {}
  /\ i' = i
  /\ pc' = "exited"
  /\ exit_status' = 0

\* the for loop takes the next row, or the function returns and main ends.
\* The locals of tailor_resume and compile_pdf are gone, and files turns to the
\* files named after the next row's base name.
NextJob(printed) ==
  /\ report' = report \o printed
  /\ depth' = 0
  /\ missing_packages' = << <<>> >>
  /\ pkg' = 0
  /\ pass_i' = 0
  /\ process' = NoProcess
  /\ exc' = NoException
  /\ writes_pdf' = TRUE
  /\ tex' = <<>>
  /\ compiled' = FALSE
  /\ calls' = <<>>
  /\ files' = {}
  /\ IF i < Len(jobs)
       THEN /\ i' = i + 1
            /\ pc' = "job"
            /\ exit_status' = exit_status
       ELSE /\ i' = i
            /\ pc' = "exited"
            /\ exit_status' = 0

\* ------------------------------------------------------ process_batch_jobs

process_batch_jobs ==
  /\ pc = "process_batch_jobs"
  /\ IF ~batch_readable
       THEN /\ sys_exit(1, Line("fatal", <<"Error reading batch file">>))
            /\ i' = i
       ELSE IF jobs = <<>>
         THEN /\ sys_exit(1, Line("fatal", <<"Error: No jobs found in batch file.">>))
              /\ i' = i
         ELSE /\ i' = 1
              /\ pc' = "job"
              /\ UNCHANGED <<report, exit_status>>
  /\ UNCHANGED <<batch_readable, api_key, jobs, JobVars>>

\* the body of the loop up to the call of tailor_resume
BatchJob ==
  /\ pc = "job"
  /\ LET job == jobs[i]
         missing == MissingFields(job)
     IN
     IF missing # <<>>
       THEN NextJob(<<Line("skipped", <<"Missing fields">> \o missing)>>)
     ELSE IF job.template = "missing"
       THEN NextJob(<<Line("skipped", <<"Resume template file not found", job.cols["template"]>>)>>)
     ELSE IF job.template = "unreadable"
       THEN \* load_template: except Exception -> sys.exit(1)
            /\ sys_exit(1, Line("fatal", <<"Error reading template file">>))
            /\ UNCHANGED <<i, JobVars>>
     ELSE IF job.jd = "missing"
       THEN NextJob(<<Line("skipped", <<"Job description file not found",
                                        job.cols["job_description_file"]>>)>>)
     ELSE IF job.jd = "unreadable"
       THEN \* open() raises: caught by the loop's except Exception
            NextJob(<<Line("error", IOError.prefix)>>)
     ELSE IF OptionalNone(job)
       THEN \* None.strip() raises: caught by the loop's except Exception
            NextJob(<<Line("error", AttributeError.prefix)>>)
     ELSE /\ pc' = "tailor_resume"
          /\ UNCHANGED <<i, report, exit_status, JobVars>>
  /\ UNCHANGED <<batch_readable, api_key, jobs>>

\* ----------------------------------------------------------- tailor_resume

\* the check of OPENAI_API_KEY
tailor_resume ==
  /\ pc = "tailor_resume"
  /\ IF ~api_key
       THEN sys_exit(1, Line("fatal", <<"Error: OPENAI_API_KEY environment variable not set.">>))
       ELSE /\ pc' = "api_call"
            /\ UNCHANGED <<report, exit_status>>
  /\ UNCHANGED <<BatchVars, JobVars>>

\* client.chat.completions.create inside try / except Exception: sys.exit(1)
ApiCall ==
  /\ pc = "api_call"
  /\ calls' = Append(calls, Call("openai", "chat", "resume"))
  /\ \E ok \in BOOLEAN :
       IF ok
         THEN /\ pc' = "write_tex"
              /\ UNCHANGED <<report, exit_status>>
         ELSE sys_exit(1, Line("fatal", <<"Error calling OpenAI API">>))
  /\ UNCHANGED <<BatchVars, depth, missing_packages, pkg, pass_i, process, exc,
                 writes_pdf, tex, compiled, files>>

\* write_file(tailored_latex, output_tex_path), then the call of compile_pdf.
\* The content received decides whether pdflatex will write a .pdf for it
\* (pdf_choices: the kinds of content the provider may return).
WriteTex(pdf_choices) ==
  /\ pc = "write_tex"
  /\ \E ok \in BOOLEAN :
       IF ok
         THEN /\ files' = files \cup {File(0, ".tex")}
              /\ writes_pdf' \in pdf_choices
              /\ tex' = <<tailored_latex(writes_pdf')>>
              /\ pc' = "version"
              /\ UNCHANGED <<report, exit_status>>
         ELSE /\ sys_exit(1, Line("fatal", <<"Error writing to file">>))
              /\ UNCHANGED <<files, writes_pdf, tex>>
  /\ UNCHANGED <<BatchVars, depth, missing_packages, pkg, pass_i, process, exc,
                 compiled, calls>>

\* ------------------------------------------------------------- compile_pdf

\* An exception leaves the current compile_pdf call.  A nested call was made
\* inside the caller's "try: ... except Exception as e: print(...)", so the
\* caller goes on with its own two passes; the outermost call was made by
\* tailor_resume, whose handler prints the warning with the message of the
\* exception (here without the sample of the log) and asks about Overleaf.
Raise(e) ==
  /\ exc' = e
  /\ IF depth > 0
       THEN /\ depth' = depth - 1
            /\ missing_packages' = SubSeq(missing_packages, 1, depth)
            /\ pc' = "pass"
            /\ pass_i' = 0
            /\ report' = report
       ELSE /\ pc' = "overleaf_prompt"
            /\ report' = Append(report, Line("warning",
                                 <<"Could not compile PDF automatically: ">> \o e.prefix))
            /\ UNCHANGED <<depth, missing_packages, pass_i>>

\* an exception raised inside the probing block is caught by the block's own
\* "except Exception as e: print(...)"; the two passes follow
CaughtInProbe(e) ==
  /\ exc' = e
  /\ pc' = "pass"
  /\ pass_i' = 0

\* subprocess.run(["pdflatex", "--version"], capture_output=True, check=True)
VersionCheck ==
  /\ pc = "version"
  /\ calls' = Append(calls, Call("pdflatex", "version", ""))
  /\ \E r \in {"ok", "absent", "hang"} :
       CASE r = "ok" ->
              /\ pc' = "probe"
              /\ UNCHANGED <<report, depth, missing_packages, pass_i, exc>>
         [] r = "absent" ->
              Raise(RuntimeError(<<"pdflatex is not installed or not in your PATH">>, <<>>))
         [] OTHER ->
              /\ pc' = "blocked"
              /\ UNCHANGED <<report, depth, missing_packages, pass_i, exc>>
  /\ UNCHANGED <<BatchVars, exit_status, pkg, process, writes_pdf, tex, compiled, files>>

Diag(p) == package_patterns[p]

\* what the probing pass may print
ProbeClean == [returncode |-> 0, stdout |-> OutText(2), stderr |-> <<>>]

ProbeUnknownError ==
  [returncode |-> 1, stdout |-> <<"! Undefined control sequence.">>, stderr |-> <<>>]

ProbeNoFontawesome ==
  [returncode |-> 1, stdout |-> <<"! LaTeX Error: ", Diag("fontawesome"), ".">>, stderr |-> <<>>]

ProbeNoXcolor ==
  [returncode |-> 1, stdout |-> <<"! LaTeX Error: ", Diag("xcolor"), ".">>, stderr |-> <<>>]

ProbeNoTitlesecFontawesome ==
  [returncode |-> 1, stdout |-> <<Diag("titlesec"), "a", Diag("fontawesome")>>, stderr |-> <<>>]

ProbeNoGeometry ==
  [returncode |-> 1, stdout |-> OutText(1), stderr |-> <<Diag("geometry")>>]

ProbeOutputs ==
  {ProbeClean, ProbeUnknownError, ProbeNoFontawesome, ProbeNoXcolor,
   ProbeNoTitlesecFontawesome, ProbeNoGeometry}

\* the part of ProbeOutputs the batch specification draws from
BatchProbeOutputs == {ProbeClean, ProbeNoFontawesome}

\* DetectMissing with one more, too general, signature: any TeX error line
\* counts as a missing hyperref
DetectMissingLoose(output) ==
  SelectSeq(PackageOrder,
            LAMBDA p : \/ re_search(package_patterns[p], output)
                       \/ p = "hyperref" /\ re_search("! Undefined control sequence.", output))

\* DetectMissing with a "break" after the first append: only the first
\* package found is reported
DetectMissingFirst(output) ==
  LET all == SelectSeq(PackageOrder, LAMBDA p : re_search(package_patterns[p], output))
  IN  IF all = <<>> THEN <<>> ELSE <<all[1]>>

\* for package, pattern in package_patterns.items(): if re.search(pattern, output)
DetectMissing(output) ==
  SelectSeq(PackageOrder, LAMBDA p : re_search(package_patterns[p], output))

\* files a pdflatex run that reaches the end of the document writes; some
\* documents also make it write a .out file (see CompilePass)
Written(d, pdf) ==
  {File(d, ".aux"), File(d, ".log")} \cup (IF pdf THEN {File(d, ".pdf")} ELSE {})

\* the probing pass (nonstopmode, no halt-on-error) and the scan of its output
Probe(outputs) ==
  /\ pc = "probe"
  /\ \/ /\ pc' = "blocked"
        /\ calls' = Append(calls, Call("pdflatex", "probe", <<>>))
        /\ UNCHANGED <<process, missing_packages, pass_i, files>>
     \/ \E p \in outputs :
          LET output == p.stdout \o p.stderr
              found == DetectMissing(output)
          IN  /\ process' = p
              /\ calls' = Append(calls, Call("pdflatex", "probe", found))
              /\ files' = files \cup Written(depth, writes_pdf)
              /\ missing_packages' = [missing_packages EXCEPT ![depth + 1] = found]
              /\ IF found # <<>>
                   THEN /\ pc' = "tlmgr"
                        /\ pass_i' = pass_i
                   ELSE /\ pc' = "pass"
                        /\ pass_i' = 0
  /\ UNCHANGED <<BatchVars, report, exit_status, depth, pkg, exc, writes_pdf, tex, compiled>>

MissingError == RuntimeError(<<"Required LaTeX packages are missing">>, <<>>)

\* "fontawesome" in missing_packages
InList(x, list) == \E k \in 1..Len(list) : list[k] = x

\* subprocess.run(["tlmgr", "--version"], ..., timeout=10) and the branch on it
TlmgrCheck ==
  /\ pc = "tlmgr"
  /\ \E tlmgr_available \in BOOLEAN :
       /\ calls' = Append(calls, Call("tlmgr", "version", tlmgr_available))
       /\ IF tlmgr_available
            THEN /\ pc' = "install"
                 /\ pkg' = 1
                 /\ UNCHANGED <<exc, pass_i>>
            ELSE IF InList("fontawesome", missing_packages[depth + 1])
              THEN /\ pc' = "ask"
                   /\ UNCHANGED <<exc, pass_i, pkg>>
              ELSE /\ CaughtInProbe(MissingError)
                   /\ pkg' = pkg
  /\ UNCHANGED <<BatchVars, report, exit_status, depth, missing_packages, process,
                 writes_pdf, tex, compiled, files>>

\* how one "tlmgr install" may end: exit 0, CalledProcessError (check=True),
\* TimeoutExpired (timeout=60); the last two are caught by "except Exception"
InstallResults == {"installed", "failed", "timeout"}

\* Install with the try/except around the loop instead of inside it: the
\* first install that fails or times out ends the loop
InstallStopAtFailure ==
  /\ pc = "install"
  /\ \E r \in InstallResults :
       /\ calls' = Append(calls, Call("tlmgr", "install",
                                      <<missing_packages[depth + 1][pkg], r>>))
       /\ IF pkg < Len(missing_packages[depth + 1]) /\ r = "installed"
            THEN /\ pkg' = pkg + 1
                 /\ UNCHANGED <<pc, pass_i>>
            ELSE /\ pkg' = 0
                 /\ pc' = "pass"
                 /\ pass_i' = 0
  /\ UNCHANGED <<BatchVars, report, exit_status, depth, missing_packages, process, exc,
                 writes_pdf, tex, compiled, files>>

\* subprocess.run(["tlmgr", "install", package], ..., check=True, timeout=60)
\* inside "for package in missing_packages: try: ... except Exception: print"
Install ==
  /\ pc = "install"
  /\ \E r \in InstallResults :
       calls' = Append(calls, Call("tlmgr", "install",
                                   <<missing_packages[depth + 1][pkg], r>>))
  /\ IF pkg < Len(missing_packages[depth + 1])
       THEN /\ pkg' = pkg + 1
            /\ UNCHANGED <<pc, pass_i>>
       ELSE /\ pkg' = 0
            /\ pc' = "pass"
            /\ pass_i' = 0
  /\ UNCHANGED <<BatchVars, report, exit_status, depth, missing_packages, process, exc,
                 writes_pdf, tex, compiled, files>>

\* input("Would you like to create a version without fontawesome? (y/n): ");
\* nesting asks for another copy at most `limit` deep
AskModify(limit) ==
  /\ pc = "ask"
  /\ \E answer \in {"y", "n", "EOF"} :
       CASE answer = "y" ->
              /\ depth < limit
              /\ pc' = "remove_fontawesome"
              /\ UNCHANGED <<exc, pass_i>>
         [] answer = "n" -> CaughtInProbe(MissingError)
         [] OTHER -> CaughtInProbe(EOFError)
  /\ UNCHANGED <<BatchVars, report, exit_status, depth, missing_packages, pkg, process,
                 writes_pdf, tex, compiled, calls, files>>

\* remove_fontawesome with the file opened for update and the result written
\* back into it
remove_fontawesome_in_place ==
  /\ pc = "remove_fontawesome"
  /\ \E readable \in BOOLEAN :
       IF readable
         THEN /\ pc' = "write_nofa"
              /\ tex' = [tex EXCEPT ![depth + 1] = modified_tex(@)]
              /\ UNCHANGED <<exc, pass_i>>
         ELSE /\ CaughtInProbe(MissingError)
              /\ tex' = tex
  /\ UNCHANGED <<BatchVars, report, exit_status, depth, missing_packages, pkg, process,
                 writes_pdf, compiled, calls, files>>

\* modified_tex = remove_fontawesome(tex_path): None when the file cannot be read
remove_fontawesome ==
  /\ pc = "remove_fontawesome"
  /\ \E readable \in BOOLEAN :
       IF readable
         THEN /\ pc' = "write_nofa"
              /\ UNCHANGED <<exc, pass_i>>
         ELSE CaughtInProbe(MissingError)
  /\ UNCHANGED <<BatchVars, report, exit_status, depth, missing_packages, pkg, process,
                 writes_pdf, tex, compiled, calls, files>>

\* write_file(modified_tex, non_fa_path); return compile_pdf(non_fa_path, ...)
WriteNofa ==
  /\ pc = "write_nofa"
  /\ \E ok \in BOOLEAN :
       IF ok
         THEN /\ files' = files \cup {File(depth + 1, ".tex")}
              /\ tex' = non_fa_written(tex, depth, modified_tex(tex[depth + 1]))
              /\ depth' = depth + 1
              /\ missing_packages' = Append(missing_packages, <<>>)
              /\ pc' = "version"
              /\ UNCHANGED <<report, exit_status>>
         ELSE /\ sys_exit(1, Line("fatal", <<"Error writing to file">>))
              /\ UNCHANGED <<files, tex, depth, missing_packages>>
  /\ UNCHANGED <<BatchVars, pkg, pass_i, process, exc, writes_pdf, compiled, calls>>

\* what a halt-on-error pass that exits non-zero may print
FailShort == [returncode |-> 1, stdout |-> OutText(3), stderr |-> <<>>]

FailOutputs ==
  { FailShort,
    [returncode |-> 1, stdout |-> OutText(DiagLimit), stderr |-> <<>>],
    [returncode |-> 1, stdout |-> OutText(DiagLimit + MaxOver), stderr |-> <<>>],
    [returncode |-> 1, stdout |-> OutText(3), stderr |-> ErrText(2)],
    [returncode |-> 1, stdout |-> OutText(3), stderr |-> ErrText(DiagLimit + MaxOver)],
    [returncode |-> 1, stdout |-> <<>>, stderr |-> <<>>] }

\* the part of FailOutputs the batch specification draws from
BatchFailOutputs == {FailShort}

PassOk == [returncode |-> 0, stdout |-> OutText(2), stderr |-> <<>>]

\* error_sample with error_log[:500]: the head of the log, not its tail
error_sample_head(p) ==
  LET error_log == IF p.stderr # <<>> THEN p.stderr ELSE p.stdout
  IN  IF Len(error_log) > DiagLimit THEN SubSeq(error_log, 1, DiagLimit) ELSE error_log

\* error_log = process.stderr if process.stderr else process.stdout
\* error_sample = error_log[-500:] if len(error_log) > 500 else error_log
error_sample(p) ==
  LET error_log == IF p.stderr # <<>> THEN p.stderr ELSE p.stdout
  IN  IF Len(error_log) > DiagLimit THEN Last(error_log, DiagLimit) ELSE error_log

\* raise RuntimeError(f"PDF compilation failed. Error log: \n{error_sample}"),
\* wrapped by "except Exception as e: raise RuntimeError(f"Error during PDF compilation: {e}")"
CompileError(p) ==
  RuntimeError(<<"Error during PDF compilation: ", "PDF compilation failed. Error log: \n">>,
               error_sample(p))

\* one iteration of "for i in range(2)": pdflatex -interaction=nonstopmode -halt-on-error
CompilePass(outputs) ==
  /\ pc = "pass"
  /\ \/ /\ pc' = "blocked"
        /\ calls' = Append(calls, Call("pdflatex", "pass", -1))
        /\ UNCHANGED <<report, depth, missing_packages, pass_i, process, exc, files>>
     \/ /\ process' = PassOk
        /\ calls' = Append(calls, Call("pdflatex", "pass", PassOk.returncode))
        /\ \E out \in SUBSET {File(depth, ".out")} :
             files' = files \cup Written(depth, writes_pdf) \cup out
        /\ pass_i' = pass_i + 1
        /\ pc' = IF pass_i + 1 = NumPasses THEN "extract" ELSE "pass"
        /\ exc' = NoException
        /\ UNCHANGED <<report, depth, missing_packages>>
     \/ \E p \in outputs :
          /\ process' = p
          /\ calls' = Append(calls, Call("pdflatex", "pass", p.returncode))
          /\ files' = files \cup {File(depth, ".log")}
          /\ Raise(CompileError(p))
  /\ UNCHANGED <<BatchVars, exit_status, pkg, writes_pdf, tex, compiled>>

\* CleanUp with '.log' left out of the list of extensions
CleanUpKeepLog(fs, d) == fs \ {File(d, ".aux"), File(d, ".out")}

\* for ext in ['.aux', '.log', '.out']: if os.path.exists(aux_file): os.remove(aux_file)
CleanUp(fs, d) == fs \ {File(d, ".aux"), File(d, ".log"), File(d, ".out")}

\* if generated_pdf != output_pdf and os.path.exists(generated_pdf): os.replace(...)
MoveArtifact(fs, d) ==
  LET generated_pdf == File(d, ".pdf")
  IN  IF generated_pdf # output_pdf /\ generated_pdf \in fs
        THEN (fs \ {generated_pdf}) \cup {output_pdf}
        ELSE fs

\* what tailor_resume prints when compile_pdf returns
SuccessLine == Line("success", <<"SUCCESS! Tailored resume saved to">>)

\* the end of compile_pdf after two passes that exited 0; every enclosing call
\* returns the value of the nested one, and tailor_resume reports the success
Extract ==
  /\ pc = "extract"
  /\ files' = MoveArtifact(CleanUp(files, depth), depth)
  /\ depth' = 0
  /\ missing_packages' = << <<>> >>
  /\ compiled' = TRUE
  /\ report' = Append(report, SuccessLine)
  /\ pc' = "open_in_editor"
  /\ UNCHANGED <<BatchVars, exit_status, pkg, pass_i, process, exc, writes_pdf, tex, calls>>

\* input("Would you like to open Overleaf ...") in tailor_resume's handler
OverleafPrompt ==
  /\ pc = "overleaf_prompt"
  /\ \E answer \in {"y", "n", "EOF"} :
       IF answer = "EOF"
         THEN \* EOFError leaves tailor_resume; the loop's handler prints it
              NextJob(<<Line("error", EOFError.prefix)>>)
         ELSE /\ pc' = "open_in_editor"
              /\ exc' = NoException
              /\ process' = NoProcess
              /\ UNCHANGED <<i, report, exit_status, depth, missing_packages, pkg, pass_i,
                             writes_pdf, tex, compiled, calls, files>>
  /\ UNCHANGED <<batch_readable, api_key, jobs>>

\* open_in_editor swallows its errors; no email is generated without a recruiter
open_in_editor ==
  /\ pc = "open_in_editor"
  /\ NextJob(<<>>)
  /\ UNCHANGED <<batch_readable, api_key, jobs>>

\* ------------------------------------------------------------ specifications

\* The batch: up to MaxJobs rows, each job against a small range of tool output
Next ==
  \/ process_batch_jobs
  \/ BatchJob
  \/ tailor_resume
  \/ ApiCall
  \/ WriteTex({TRUE})
  \/ VersionCheck
  \/ Probe(BatchProbeOutputs)
  \/ TlmgrCheck
  \/ Install
  \/ AskModify(1)
  \/ remove_fontawesome
  \/ WriteNofa
  \/ CompilePass(BatchFailOutputs)
  \/ Extract
  \/ OverleafPrompt
  \/ open_in_editor

Spec == Init /\ [][Next]_vars

\* One job: a batch of one well-formed row, against the full range of tool output
PipelineInit ==
  /\ Init
  /\ batch_readable
  /\ api_key
  /\ Len(jobs) = 1
  /\ jobs[1] \in RowsOf(RequiredSet)
  /\ MissingFields(jobs[1]) = <<>>
  /\ jobs[1].template = "ok"
  /\ jobs[1].jd = "ok"

PipelineNext ==
  \/ process_batch_jobs
  \/ BatchJob
  \/ tailor_resume
  \/ ApiCall
  \/ WriteTex(BOOLEAN)
  \/ VersionCheck
  \/ Probe(ProbeOutputs)
  \/ TlmgrCheck
  \/ Install
  \/ AskModify(MaxDepth)
  \/ remove_fontawesome
  \/ WriteNofa
  \/ CompilePass(FailOutputs)
  \/ Extract
  \/ OverleafPrompt
  \/ open_in_editor

PipelineSpec == PipelineInit /\ [][PipelineNext]_vars

\* the interpreter keeps running the program while it has a step to take
FairPipelineSpec == PipelineSpec /\ WF_vars(PipelineNext)

\* Batch files with optional columns: the required columns hold their values
\* and the files exist; the optional columns of a row are empty, or the row
\* ends before them (None from the first column it lacks on)
OptionalHeaders ==
  { {"pain_points"}, {"recruiter_name", "recruiter_email"}, {"keywords", "keywords_file"},
    OptionalSet }

OptionalRows(opt) ==
  LET row(vals) == [cols |-> [f \in RequiredSet \cup opt |->
                                IF f \in RequiredSet THEN GoodValue(f) ELSE vals[f]],
                    template |-> "ok", jd |-> "ok"]
      \* the columns of opt from position k of optional_fields on
      tail(k) == {optional_fields[m] : m \in k..Len(optional_fields)} \cap opt
  IN  {row([f \in opt |-> ""])}
      \cup {row([f \in opt |-> IF f \in tail(k) THEN None ELSE ""]) :
              k \in {m \in 1..Len(optional_fields) : optional_fields[m] \in opt}}

OptionalInit ==
  /\ batch_readable = TRUE
  /\ api_key = TRUE
  /\ \E opt \in OptionalHeaders : \E n \in 1..MaxJobs :
       /\ jobs \in [1..n -> OptionalRows(opt)]
       /\ Cardinality({k \in 1..n : OptionalNone(jobs[k])}) <= MaxDefects
  /\ i = 0
  /\ report = <<>>
  /\ exit_status = -1
  /\ pc = "process_batch_jobs"
  /\ depth = 0
  /\ missing_packages = << <<>> >>
  /\ pkg = 0
  /\ pass_i = 0
  /\ process = NoProcess
  /\ exc = NoException
  /\ writes_pdf = TRUE
  /\ tex = <<>>
  /\ compiled = FALSE
  /\ calls = <<>>
  /\ files = {}

OptionalSpec == OptionalInit /\ [][Next]_vars

\* The names of the output files on their own: l.959-962 applied to the rows
\* of a batch whose jobs are all built.  Here company and role are spelled
\* out, as sequences of characters.
CompanyNames == { <<"A", "b">>, <<"a", "b">>, <<"a", " ", "b">>, <<"a", "_", "b">>, <<"a">> }

RoleNames == { <<"c">>, <<"C">>, <<"b", " ", "c">> }

\* str.lower()
lower(name) ==
  [k \in 1..Len(name) |-> CASE name[k] = "A" -> "a"
                            [] name[k] = "C" -> "c"
                            [] OTHER -> name[k]]

\* str.replace(' ', '_')
replace(name) == [k \in 1..Len(name) |-> IF name[k] = " " THEN "_" ELSE name[k]]

\* f"{job['company'].lower().replace(' ', '_')}_{job['role'].lower().replace(' ', '_')}_resume"
output_basename(job) ==
  replace(lower(job.cols["company"])) \o <<"_">>
    \o replace(lower(job.cols["role"])) \o <<"_resume">>

NamesInit ==
  /\ batch_readable = TRUE
  /\ api_key = TRUE
  /\ \E n \in 2..MaxJobs :
       jobs \in [1..n -> [cols : [company : CompanyNames, role : RoleNames,
                                  template : {"resume.tex"},
                                  job_description_file : {"jd.txt"}],
                          template : {"ok"}, jd : {"ok"}]]
  /\ i = 1
  /\ report = <<>>
  /\ exit_status = -1
  /\ pc = "job"
  /\ depth = 0
  /\ missing_packages = << <<>> >>
  /\ pkg = 0
  /\ pass_i = 0
  /\ process = NoProcess
  /\ exc = NoException
  /\ writes_pdf = TRUE
  /\ tex = <<>>
  /\ compiled = FALSE
  /\ calls = <<>>
  /\ files = {}

\* One turn of the loop for a row whose job is built: the names are derived,
\* tailor_resume announces and writes output_tex (l.481-482) and compile_pdf
\* leaves the artifact at output_pdf; files is here the content of the output
\* directory, each file with the row it was last written for.
OutputNames ==
  /\ pc = "job"
  /\ LET base == output_basename(jobs[i])
         output_tex == <<base, ".tex">>
         written == {output_tex, <<base, ".pdf">>}
     IN  /\ report' = Append(report, Line("saving", output_tex))
         /\ files' = {f \in files : f.path \notin written}
                       \cup {[path |-> w, job |-> i] : w \in written}
  /\ IF i < Len(jobs)
       THEN /\ i' = i + 1
            /\ UNCHANGED <<pc, exit_status>>
       ELSE /\ i' = i
            /\ pc' = "exited"
            /\ exit_status' = 0
  /\ UNCHANGED <<batch_readable, api_key, jobs, depth, missing_packages, pkg, pass_i,
                 process, exc, writes_pdf, tex, compiled, calls>>

NamesNext == OutputNames

NamesSpec == NamesInit /\ [][NamesNext]_vars

\* The detection on its own: l.746-761 applied to the captured output of a
\* probing pass, for every output of up to MaxTokens tokens on stdout
DetectTokens ==
  {package_patterns[PackageOrder[k]] : k \in 1..Len(PackageOrder)}
    \cup {"File `xcolor_sty' not found", "! Undefined control sequence.", "a"}

Texts(n) == UNION {[1..m -> DetectTokens] : m \in 0..n}

DetectInit ==
  /\ batch_readable = TRUE
  /\ api_key = TRUE
  /\ jobs = <<>>
  /\ i = 0
  /\ report = <<>>
  /\ exit_status = -1
  /\ pc = "detect"
  /\ depth = 0
  /\ missing_packages = << <<>> >>
  /\ pkg = 0
  /\ pass_i = 0
  /\ process \in [returncode : {1}, stdout : Texts(MaxTokens),
                   stderr : {<<>>, <<Diag("geometry")>>}]
  /\ exc = NoException
  /\ writes_pdf = TRUE
  /\ tex = <<>>
  /\ compiled = FALSE
  /\ calls = <<>>
  /\ files = {}

\* output = process.stdout + process.stderr; the loop over package_patterns
Detect ==
  /\ pc = "detect"
  /\ missing_packages' = <<DetectMissing(process.stdout \o process.stderr)>>
  /\ pc' = "detected"
  /\ UNCHANGED <<BatchVars, report, exit_status, depth, pkg, pass_i, process, exc,
                 writes_pdf, tex, compiled, calls, files>>

DetectNext == Detect

DetectSpec == DetectInit /\ [][DetectNext]_vars

\* ------------------------------------------------------------------ claims

N == Len(jobs)

\* the loop has run to its end and main has returned
Completed == pc = "exited" /\ exit_status = 0

\* what the program has printed about row j
Lines(j) == SelectSeq(report, LAMBDA l : l.job = j)

HasLine(j, kind) == \E k \in 1..Len(report) : report[k].job = j /\ report[k].kind = kind

\* row j is past: the loop is at a later row, or has ended
Past(j) == i > j \/ (i = j /\ Completed)

AbsentOrEmpty(job, f) == f \notin DOMAIN job.cols \/ job.cols[f] = "" \/ job.cols[f] = None

WellFormed(job) == \A f \in RequiredSet : ~AbsentOrEmpty(job, f)

JdMissing(job) == WellFormed(job) /\ job.template = "ok" /\ job.jd = "missing"

\* C1 (as claimed): a job that fails, in whatever way, does not end the batch
\* loop or the process: when the process has ended after starting on the rows,
\* it has gone through every row.
C1_FailureNeverEndsBatch == (pc = "exited" /\ i >= 1) => i = N

\* C2: a row whose job-description file does not exist is recorded as skipped,
\* with the reason, exactly once; the program neither exits nor calls a tool
\* while on that row; when the loop has ended every row has its outcome, the
\* other well-formed rows having gone through content generation and build.
C2_MissingJdSkipsOneJob ==
  \A k \in 1..N :
    JdMissing(jobs[k]) =>
      /\ i = k => (pc = "job" \/ Completed) /\ calls = <<>>
      /\ Past(k) =>
           Lines(k) = << [job |-> k, kind |-> "skipped",
                          reason |-> <<"Job description file not found",
                                       jobs[k].cols["job_description_file"]>>] >>
      /\ Completed =>
           /\ {report[m].job : m \in 1..Len(report)} = 1..N
           /\ \A j \in (1..N) \ {k} :
                (WellFormed(jobs[j]) /\ jobs[j].template = "ok" /\ jobs[j].jd = "ok")
                  => HasLine(j, "success") \/ HasLine(j, "warning")

C2_Witness ==
  /\ Completed
  /\ N = 3
  /\ JdMissing(jobs[2])
  /\ HasLine(1, "success")
  /\ HasLine(2, "skipped")
  /\ HasLine(3, "success")

\* C3: a row in which a required column is absent or empty is skipped with a
\* reason naming exactly the missing fields; no content-provider call and no
\* compiler call is made for it, and the loop goes on to the next row.
C3_MissingFieldSkipsRow ==
  \A k \in 1..N :
    (\E f \in RequiredSet : AbsentOrEmpty(jobs[k], f)) =>
      /\ i = k => (pc = "job" \/ Completed) /\ calls = <<>>
      /\ Past(k) =>
           /\ Len(Lines(k)) = 1
           /\ Lines(k)[1].kind = "skipped"
           /\ Lines(k)[1].reason[1] = "Missing fields"
           /\ {Lines(k)[1].reason[m] : m \in 2..Len(Lines(k)[1].reason)}
                = {f \in RequiredSet : AbsentOrEmpty(jobs[k], f)}
      /\ (i = k /\ pc = "exited") => k = N

C3_Witness ==
  /\ Completed
  /\ N = 3
  /\ AbsentOrEmpty(jobs[2], "template")
  /\ AbsentOrEmpty(jobs[2], "job_description_file")
  /\ HasLine(2, "skipped")
  /\ HasLine(3, "success")

\* C4 (as claimed): in batch mode the exit status is non-zero only when the
\* batch input cannot be read, never because of what happened to a job.
C4_NonZeroExitOnlyAtStart == exit_status > 0 => i = 0

\* the invocations of pdflatex and tlmgr made for the current job
ToolCalls == SelectSeq(calls, LAMBDA c : c.tool \in {"pdflatex", "tlmgr"})

Kinds(cs) == [k \in 1..Len(cs) |-> cs[k].kind]

\* compile_pdf has returned to tailor_resume without raising
BuildSucceeded == pc = "open_in_editor" /\ compiled

\* the probing pass of the job's own document matched no signature
\* (calls: the provider, the version check, the probing pass)
CleanProbe == Len(calls) >= 3 /\ calls[3].kind = "probe" /\ calls[3].arg = <<>>

C6_UnresolvableNeverCompiled ==
  \A k \in 2..Len(calls) :
    ( /\ calls[k].tool = "tlmgr"
      /\ calls[k].kind = "version"
      /\ calls[k].arg = FALSE
      /\ calls[k - 1].kind = "probe"
      /\ \E m \in 1..Len(calls[k - 1].arg) : calls[k - 1].arg[m] # "fontawesome" )
    => \A j \in (k + 1)..Len(calls) : calls[j].kind # "pass"

\* C7 (as claimed): a build is reported successful only if the artifact exists.
C7_SuccessImpliesArtifact == BuildSucceeded => output_pdf \in files

\* the artifact was built from a _nofa copy
Remediated == calls[Len(calls)].kind = "pass" /\ calls[Len(calls)].doc > 0

\* C8 (as claimed): a build from a remediated document is not reported as the
\* plain success an unremediated build gets.
C8_DegradedNotPlainSuccess ==
  (BuildSucceeded /\ Remediated) =>
    report[Len(report)] # [job |-> i, kind |-> "success",
                           reason |-> <<"SUCCESS! Tailored resume saved to">>]

\* the last thing that happened is a compiling pass that exited non-zero
PassJustFailed ==
  /\ calls # <<>>
  /\ calls[Len(calls)].kind = "pass"
  /\ calls[Len(calls)].arg > 0
  /\ process.returncode # 0

C10_HungToolTimesOut == (pc = "blocked") ~> (pc # "blocked")

\* the document (nesting depth) the last invocation worked on
LastDoc == calls[Len(calls)].doc

\* C11 (as claimed): after compile_pdf has returned without raising, the
\* artifact is at output_pdf; when the path derived from the compiled
\* document (the _nofa copy in a remediated run) differs from output_pdf,
\* nothing is left at the derived path.
C11_ArtifactAtOutputPdf ==
  BuildSucceeded =>
    /\ output_pdf \in files
    /\ File(LastDoc, ".pdf") # output_pdf => File(LastDoc, ".pdf") \notin files

\* the warning tailor_resume prints when compile_pdf found no pdflatex
AbsentLine(l) ==
  /\ l.kind = "warning"
  /\ l.reason = <<"Could not compile PDF automatically: ",
                  "pdflatex is not installed or not in your PATH">>

VersionChecks == SelectSeq(calls, LAMBDA c : c.tool = "pdflatex" /\ c.kind = "version")

\* C12 (as claimed): the absence of pdflatex ends the run, no later row is
\* taken up and the run does not end as a completed batch; the availability
\* of pdflatex is checked once for the run, so not again for a row that
\* follows a row which reached the build.
C12_CompilerAbsenceEndsRun ==
  /\ \A k \in 1..Len(report) :
       AbsentLine(report[k]) => i = report[k].job /\ ~Completed
  /\ (\E j \in 1..(i - 1) : HasLine(j, "success") \/ HasLine(j, "warning"))
       => VersionChecks = <<>>

\* the halt-on-error passes run for the current job
Passes == SelectSeq(calls, LAMBDA c : c.kind = "pass")

\* C13 (as claimed): at most two compiling passes are run for a job, all on
\* the same document.
C13_AtMostTwoPassesOneDocument ==
  /\ Len(Passes) <= NumPasses
  /\ \A a, b \in 1..Len(Passes) : Passes[a].doc = Passes[b].doc

\* C14 (as claimed): remove_fontawesome is applied to the original document
\* only: no copy of a _nofa copy is ever made.
C14_RemediatorOnlyOnOriginal ==
  \A d \in 2..(MaxDepth + 1) : File(d, ".tex") \notin files

IsInstall(c) == c.tool = "tlmgr" /\ c.kind = "install"

\* C15 (as claimed): after an install attempt that did not install its
\* package, no compiling pass is run on the document the package was found
\* missing for.
C15_FailedInstallNeverCompiled ==
  \A k \in 1..Len(calls) :
    (IsInstall(calls[k]) /\ calls[k].arg[2] # "installed") =>
      \A j \in (k + 1)..Len(calls) :
        ~(calls[j].kind = "pass" /\ calls[j].doc = calls[k].doc)

\* the k-th invocation is "tlmgr --version" and it found tlmgr
TlmgrAvailableAt(k) ==
  calls[k].tool = "tlmgr" /\ calls[k].kind = "version" /\ calls[k].arg = TRUE

\* C16: when tlmgr is found, the invocations that follow are one install per
\* package of the list the probing pass gave, in the list's order, whatever
\* the result (installed, failed, timed out) of the ones before; until the
\* last of them is made the program is in the loop, at the next package; no
\* other install is made for that document, none without tlmgr having been
\* found, and the program never waits without end on tlmgr.
C16_EveryMissingInstalledOnce ==
  /\ \A k \in 2..Len(calls) :
       TlmgrAvailableAt(k) =>
         LET found == calls[k - 1].arg
             done == Len(calls) - k
         IN  /\ calls[k - 1].kind = "probe"
             /\ found # <<>>
             /\ \A m \in 1..Len(found) :
                  IF m <= done
                    THEN /\ IsInstall(calls[k + m])
                         /\ calls[k + m].doc = calls[k].doc
                         /\ calls[k + m].arg[1] = found[m]
                         /\ calls[k + m].arg[2] \in InstallResults
                    ELSE /\ pc = "install"
                         /\ pkg = done + 1
                         /\ depth = calls[k].doc
             /\ \A j \in (k + Len(found) + 1)..Len(calls) :
                  ~(IsInstall(calls[j]) /\ calls[j].doc = calls[k].doc)
  /\ \A j \in 1..Len(calls) :
       IsInstall(calls[j]) =>
         \E k \in 2..(j - 1) : TlmgrAvailableAt(k) /\ calls[k].doc = calls[j].doc
  /\ pc = "blocked" => calls[Len(calls)].tool = "pdflatex"

C16_Witness ==
  \E k \in 1..(Len(calls) - 1) :
    /\ IsInstall(calls[k])
    /\ calls[k].arg[2] = "timeout"
    /\ IsInstall(calls[k + 1])
    /\ calls[k + 1].arg[1] # calls[k].arg[1]
    /\ pc = "pass"

TlmgrChecks == SelectSeq(calls, LAMBDA c : c.tool = "tlmgr" /\ c.kind = "version")

\* C17 (as claimed): "tlmgr --version" is run at most once for a job, also
\* when a _nofa copy is compiled; when it did not find tlmgr, no install is
\* attempted for the job.
C17_TlmgrProbedOncePerRun ==
  /\ Len(TlmgrChecks) <= 1
  /\ (\E k \in 1..Len(TlmgrChecks) : TlmgrChecks[k].arg = FALSE)
       => \A j \in 1..Len(calls) : ~IsInstall(calls[j])

\* C18 (as claimed): the report holds exactly one outcome for every row that
\* is past, in the order of the rows, and when the process has ended after
\* taking up the rows the report holds one outcome for each of the N rows.
C18_OneOutcomePerJob ==
  /\ \A j \in 1..N : Past(j) => Len(Lines(j)) = 1
  /\ \A a, b \in 1..Len(report) : a < b => report[a].job <= report[b].job
  /\ (pc = "exited" /\ i >= 1) => \A j \in 1..N : Len(Lines(j)) = 1

Intermediates(d) == {File(d, ".aux"), File(d, ".log"), File(d, ".out")}

\* C19: the step that ends a compile_pdf call whose two passes exited 0
\* always ends in success, whichever of base_name.aux, base_name.log and
\* base_name.out exist before it, and none of them exists after it
\* (base_name: the document this call compiled).
C19_NoIntermediatesAfterSuccess ==
  [][pc = "extract" =>
       /\ BuildSucceeded'
       /\ Intermediates(depth) \cap files' = {}
       /\ exc' = NoException]_vars

C19_Witness ==
  /\ BuildSucceeded
  /\ Intermediates(LastDoc) \cap files = {}
  /\ File(LastDoc, ".tex") \in files
  /\ output_pdf \in files

CompilePrefix == <<"Error during PDF compilation: ", "PDF compilation failed. Error log: \n">>

\* C20: a probing pass that exits non-zero with output matching none of the
\* five signatures gives an empty missing_packages: the next step of the same
\* compile_pdf call is the first compiling pass on the same document, with no
\* tlmgr call, no prompt and no _nofa copy in between and no exception
\* raised; and after a first probing pass that matched nothing, the only
\* exception the job's build raises is the compile failure of a pass.
C20_UnknownProbeErrorYieldsEmptySet ==
  [][/\ ( /\ pc = "probe"
          /\ pc' # "blocked"
          /\ process'.returncode # 0
          /\ \A k \in 1..Len(PackageOrder) :
               ~re_search(package_patterns[PackageOrder[k]],
                          process'.stdout \o process'.stderr) )
        => /\ missing_packages'[depth + 1] = <<>>
           /\ calls' = Append(calls, Call("pdflatex", "probe", <<>>))
           /\ pc' = "pass"
           /\ pass_i' = 0
           /\ depth' = depth
           /\ exc' = exc
     /\ (CleanProbe /\ exc' # exc /\ exc' # NoException)
        => /\ exc'.type = "RuntimeError"
           /\ exc'.prefix = CompilePrefix
           /\ calls'[Len(calls')].kind = "pass"
           /\ calls'[Len(calls')].doc = 0]_vars

C20_Witness ==
  /\ pc = "pass"
  /\ pass_i = 0
  /\ depth = 0
  /\ process.returncode # 0
  /\ calls[Len(calls)].kind = "probe"
  /\ calls[Len(calls)].arg = <<>>
  /\ missing_packages = << <<>> >>

\* C22: from the first invocation of pdflatex for a job on, and so after a
\* failed build too, the job's .tex file exists and holds the document the
\* content provider returned.
C22_SourcePersistedUnmodified ==
  ((\E k \in 1..Len(calls) : calls[k].tool = "pdflatex") \/ pc = "overleaf_prompt")
    => /\ File(0, ".tex") \in files
       /\ Len(tex) >= 1
       /\ tex[1] = tailored_latex(writes_pdf)

C22_Witness ==
  /\ pc = "overleaf_prompt"
  /\ exc.prefix = CompilePrefix
  /\ File(1, ".tex") \in files
  /\ tex[1] = tailored_latex(writes_pdf)
  /\ tex[2] # tex[1]

\* remove_fontawesome applied n times in a row
RECURSIVE modified_times(_, _)
modified_times(content, n) ==
  IF n = 0 THEN content ELSE modified_tex(modified_times(content, n - 1))

\* C24: every _nofa copy holds what remove_fontawesome makes of the document
\* it was made from, and that document is as it was before: applying
\* remove_fontawesome to it again gives the copy again, byte for byte.
C24_RemediationPure ==
  /\ \A d \in 1..Len(tex) : tex[d] = modified_times(tailored_latex(writes_pdf), d - 1)
  /\ \A d \in 1..(Len(tex) - 1) :
       /\ File(d, ".tex") \in files
       /\ tex[d + 1] = modified_tex(tex[d])

C24_Witness ==
  /\ Len(tex) = 3
  /\ tex[2] # tex[1]
  /\ tex[2] = modified_tex(tex[1])
  /\ tex[3] = modified_tex(tex[2])
  /\ \E k \in 1..Len(calls) : calls[k].kind = "pass" /\ calls[k].doc = 2

\* C26 (as claimed): after a build from a _nofa copy that produced the
\* artifact, no .aux, .log or .out file is left, neither of the copy nor of
\* the documents probed before it.
C26_NoIntermediatesAfterRemediatedRun ==
  (BuildSucceeded /\ Remediated /\ output_pdf \in files) =>
    \A d \in 0..LastDoc : Intermediates(d) \cap files = {}

\* the text has a place where the pattern of package p matches
ContainsPattern(text, p) ==
  \E k \in 1..Len(text) :
    text[k] \in {package_patterns[p]} \cup dot_matches(package_patterns[p])

\* C23: for every captured output the detection ends without an exception
\* and leaves the output as it was; its list holds a package exactly when the
\* output has a match of the package's pattern, each package once and in the
\* order of the registry, so it is empty exactly when no pattern matches.
C23_DetectionTotalAndExact ==
  pc = "detected" =>
    LET text == process.stdout \o process.stderr
        found == missing_packages[1]
    IN  /\ exc = NoException
        /\ \A k \in 1..Len(PackageOrder) :
             InList(PackageOrder[k], found) <=> ContainsPattern(text, PackageOrder[k])
        /\ \A a, b \in 1..Len(found) : a # b => found[a] # found[b]
        /\ found = SelectSeq(PackageOrder, LAMBDA p : InList(p, found))
        /\ (found = <<>>) <=> (\A k \in 1..Len(PackageOrder) :
                                 ~ContainsPattern(text, PackageOrder[k]))

C23_Witness ==
  /\ pc = "detected"
  /\ process.stdout = <<package_patterns["titlesec"], package_patterns["xcolor"]>>
  /\ process.stderr = <<package_patterns["geometry"]>>
  /\ missing_packages[1] = <<"xcolor", "geometry", "titlesec">>

\* the optional columns of the row are absent, empty or not supplied
OptionalUnset(job) ==
  \A f \in OptionalSet \cap DOMAIN job.cols : job.cols[f] \in {"", None}

\* C21 (as claimed): a row with its four required fields and existing input
\* files, whose optional columns are absent, empty or not supplied, is never
\* skipped and never fails on an optional value.
C21_OptionalFieldsNeverFailJob ==
  \A k \in 1..N :
    (WellFormed(jobs[k]) /\ jobs[k].template = "ok" /\ jobs[k].jd = "ok"
       /\ OptionalUnset(jobs[k]))
    => \A m \in 1..Len(report) :
         report[m].job = k =>
           /\ report[m].kind # "skipped"
           /\ report[m].reason # AttributeError.prefix

\* C25 (as claimed): the rows of a batch get distinct output paths, whatever
\* their company and role, so no row's files are written over by a later row:
\* every row that is past still has its .tex file and its artifact.
C25_DistinctOutputPaths ==
  /\ \A a, b \in 1..Len(report) : a # b => report[a].reason # report[b].reason
  /\ \A k \in 1..Len(report) :
       \A ext \in {".tex", ".pdf"} :
         [path |-> <<output_basename(jobs[k]), ext>>, job |-> k] \in files

====
